---- MODULE Spec2Model ----
(***************************************************************************)
(* Cursor AI Coordination Runtime (caicr.c): the foreground API            *)
(* (caicr_submit_operation, caicr_undo, caicr_register_operation_callback) *)
(* and the synchronization thread, running against the Persistence Port    *)
(* (caicr_lldb.h) and the Distribution Port (caicr_network.h).             *)
(*                                                                         *)
(* The two ports are placeholders in the repository (their bodies are      *)
(* omitted), so their behaviour is modelled from the contract of spec.md   *)
(* sections 4.2 and 4.3; every port call may also fail.                    *)
(***************************************************************************)
EXTENDS Integers, Sequences, FiniteSets, TLC

\* ---------------------------------------------------------------- bounds
MaxCalls == 3        \* API calls started over one behaviour
MaxFaults == 1       \* port calls that fail by themselves over one behaviour
MaxBatches == 1      \* non-empty peer batches the network hands over

\* ------------------------------------------------------------ CAICRStatus
CAICR_SUCCESS == "CAICR_SUCCESS"
CAICR_ERROR_INVALID_PARAMETER == "CAICR_ERROR_INVALID_PARAMETER"
CAICR_ERROR_OUT_OF_MEMORY == "CAICR_ERROR_OUT_OF_MEMORY"
CAICR_ERROR_LLDB_INITIALIZATION == "CAICR_ERROR_LLDB_INITIALIZATION"
CAICR_ERROR_LLDB_QUERY == "CAICR_ERROR_LLDB_QUERY"
CAICR_ERROR_NETWORK_INITIALIZATION == "CAICR_ERROR_NETWORK_INITIALIZATION"
CAICR_ERROR_OPERATION_EXECUTION == "CAICR_ERROR_OPERATION_EXECUTION"
CAICR_ERROR_PERSISTENCE == "CAICR_ERROR_PERSISTENCE"
CAICR_ERROR_UNKNOWN == "CAICR_ERROR_UNKNOWN"

\* ----------------------------------------------------- CAICROperationType
CAICR_OP_INSERT == "CAICR_OP_INSERT"
CAICR_OP_DELETE == "CAICR_OP_DELETE"
CAICR_OP_REPLACE == "CAICR_OP_REPLACE"

\* A null char* (content) and a null CAICROperation*.
NULL == "<NULL>"
NULL_OP == [null |-> TRUE]

\* struct CAICROperation (the next pointer is the position in a batch).
CAICROperation(type, file_path, line_number, column_number, content, content_length, timestamp_ns, instance_id, operation_id) ==
    [type |-> type, file_path |-> file_path, line_number |-> line_number,
     column_number |-> column_number, content |-> content,
     content_length |-> content_length, timestamp_ns |-> timestamp_ns,
     instance_id |-> instance_id, operation_id |-> operation_id]

\* config.instance_id of this instance, and the id of a peer instance.
InstanceId == "self"
PeerId == "peer"

\* The operations callers submit.  The sample client leaves timestamp_ns and
\* operation_id at 0 ("will be set by the runtime").
SubmitOps ==
    { CAICROperation(CAICR_OP_INSERT, "f.txt", 1, 1, "hi", 2, 0, InstanceId, 0),
      CAICROperation(CAICR_OP_DELETE, "f.txt", 1, 1, "hi", 2, 0, InstanceId, 0),
      CAICROperation(CAICR_OP_REPLACE, "a.txt", 2, 3, "X", 1, 7, InstanceId, 0) }

\* The batches of peer operations the network layer hands over.
PeerOp1 == CAICROperation(CAICR_OP_INSERT, "p.txt", 4, 1, "pp", 2, 9, PeerId, 5)
PeerOp2 == CAICROperation(CAICR_OP_DELETE, "p.txt", 4, 1, "pp", 2, 0, PeerId, 6)
PeerBatches == { <<PeerOp1, PeerOp2>> }

\* The observers a client registers (a callback with its user data).
Callbacks == { "cbA" }
NoCallback == "NULL"

Callers == { "t1", "t2" }
SyncThread == "sync"
Threads == Callers \cup { SyncThread }
NoThread == "none"

\* ======================================================= Persistence Port
\* The context of the port: the log as the connection sees it, the open
\* transaction with the log it would roll back to, and the id counter.
LLDBContext0 ==
    [log |-> <<>>, txn_open |-> FALSE, txn_snap |-> <<>>, next_id |-> 1]

\* An entry of the log: the operation as handed over, the operationId the
\* port assigns, and the undone flag.
LogEntry(operation, id) ==
    [type |-> operation.type, file_path |-> operation.file_path,
     line_number |-> operation.line_number,
     column_number |-> operation.column_number,
     content |-> operation.content,
     content_length |-> operation.content_length,
     timestamp_ns |-> operation.timestamp_ns,
     instance_id |-> operation.instance_id,
     operation_id |-> id, undone |-> FALSE]

\* The result of a port call: the context after it and the status returned.
Result(ctx, st) == [ctx |-> ctx, status |-> st]

\* beginTransaction: nesting is an error.
caicr_lldb_begin_transaction(ctx, outcome) ==
    IF outcome = "fail" \/ ctx.txn_open
    THEN Result(ctx, CAICR_ERROR_PERSISTENCE)
    ELSE Result([ctx EXCEPT !.txn_open = TRUE, !.txn_snap = ctx.log],
                CAICR_SUCCESS)

\* store: appends and assigns the next operationId.  Outside a transaction
\* the call breaks the contract: the port rejects it ("reject") or appends
\* in a transaction of its own ("ok").
caicr_lldb_store_operation(ctx, operation, outcome) ==
    IF outcome = "ok"
    THEN Result([ctx EXCEPT !.log = Append(@, LogEntry(operation, ctx.next_id)),
                            !.next_id = @ + 1],
                CAICR_SUCCESS)
    ELSE Result(ctx, CAICR_ERROR_PERSISTENCE)

\* commit: ends the transaction; a failed commit leaves it open ("fail") or
\* the port aborts it ("fail_abort").
caicr_lldb_commit_transaction(ctx, outcome) ==
    IF ~ctx.txn_open THEN Result(ctx, CAICR_ERROR_PERSISTENCE)
    ELSE IF outcome = "ok"
    THEN Result([ctx EXCEPT !.txn_open = FALSE, !.txn_snap = <<>>],
                CAICR_SUCCESS)
    ELSE IF outcome = "fail_abort"
    THEN Result([ctx EXCEPT !.txn_open = FALSE, !.log = ctx.txn_snap,
                            !.txn_snap = <<>>],
                CAICR_ERROR_PERSISTENCE)
    ELSE Result(ctx, CAICR_ERROR_PERSISTENCE)

\* rollback: ends the open transaction and restores the log.
caicr_lldb_rollback_transaction(ctx) ==
    IF ctx.txn_open
    THEN Result([ctx EXCEPT !.txn_open = FALSE, !.log = ctx.txn_snap,
                            !.txn_snap = <<>>],
                CAICR_SUCCESS)
    ELSE Result(ctx, CAICR_ERROR_PERSISTENCE)

\* getLast: a copy of the newest entry, or none.
caicr_lldb_get_last_operation(ctx, outcome) ==
    IF outcome = "fail" THEN [operation |-> NULL_OP, status |-> CAICR_ERROR_LLDB_QUERY]
    ELSE IF ctx.log = <<>> THEN [operation |-> NULL_OP, status |-> CAICR_SUCCESS]
    ELSE [operation |-> ctx.log[Len(ctx.log)], status |-> CAICR_SUCCESS]

\* markUndone: flags the entry with this operationId.
caicr_lldb_mark_operation_undone(ctx, operation_id, outcome) ==
    IF outcome = "fail" \/ ~\E i \in 1..Len(ctx.log) : ctx.log[i].operation_id = operation_id
    THEN Result(ctx, CAICR_ERROR_LLDB_QUERY)
    ELSE Result([ctx EXCEPT !.log = [i \in 1..Len(ctx.log) |->
                     IF ctx.log[i].operation_id = operation_id
                     THEN [ctx.log[i] EXCEPT !.undone = TRUE]
                     ELSE ctx.log[i]]],
                CAICR_SUCCESS)

\* open: the status of opening the database.
caicr_lldb_initialize(outcome) ==
    IF outcome = "ok" THEN CAICR_SUCCESS ELSE CAICR_ERROR_LLDB_INITIALIZATION

\* ====================================================== Distribution Port
\* open: the status of opening the peer connection; the context itself may
\* fail to be allocated.
caicr_network_initialize(outcome) ==
    IF outcome = "ok" THEN CAICR_SUCCESS
    ELSE IF outcome = "fail_oom" THEN CAICR_ERROR_OUT_OF_MEMORY
    ELSE CAICR_ERROR_NETWORK_INITIALIZATION

caicr_network_distribute_operation(outcome) ==
    IF outcome = "ok" THEN CAICR_SUCCESS ELSE CAICR_ERROR_UNKNOWN

\* ================================================================== state
VARIABLES
    lldb,            \* instance->lldb_context: the Persistence Port's state
    mutex,           \* instance->mutex: the thread holding it, or NoThread
    is_running,      \* instance->is_running
    callback,        \* instance->callback and instance->callback_user_data
    pc,              \* the position of every thread
    call,            \* the API function a caller is in
    status,          \* the local `status` of a caller
    operation,       \* the argument of caicr_submit_operation
    last_operation,  \* the local of caicr_undo
    reverse_operation, \* the local of caicr_undo
    reg_callback,    \* the argument of caicr_register_operation_callback
    operations,      \* the batch the synchronization thread holds
    current,         \* its position in the batch
    net_batches,     \* batches the network layer has handed over so far
    calls,           \* API calls started so far
    faults,          \* port calls that failed by themselves so far
    txn_owner,       \* the thread whose beginTransaction opened the transaction
    commit_order,    \* the operations of submit calls, in commit order
    obs,             \* what each caller's current call has done so far
    sync_obs,        \* what the synchronization thread has done so far
    life             \* what exists of the instance: memory, lock, ports, thread

vars == << lldb, mutex, is_running, callback, pc, call, status, operation,
           last_operation, reverse_operation, reg_callback, operations, current,
           net_batches, calls, faults, txn_owner, commit_order, obs, sync_obs,
           life >>

\* What a call has done so far (observation only; no action reads it).
Obs0 ==
    [log0 |-> <<>>,          \* the log when the call took the lock
     began |-> FALSE,        \* its beginTransaction succeeded
     committed |-> FALSE,    \* its commit succeeded
     rollbacks |-> 0,        \* rollback calls it made
     stored |-> 0,           \* the operationId its store was given
     marked |-> 0,           \* the operationId it marked undone
     fetched |-> NULL_OP,    \* what getLast returned to it
     fetch_empty |-> FALSE,  \* the log was empty when it fetched
     frees |-> 0,            \* caicr_free_operation calls on the fetched operation
     failed |-> "none",      \* the port call that failed
     reported |-> "none",    \* the status that call reported
     unlocked |-> FALSE,     \* it has released the lock
     txn_left |-> FALSE,     \* its transaction was open when it released the lock
     log_same |-> TRUE,      \* the log at that moment was the log at the lock
     undone_same |-> TRUE,   \* ... and the fetched entry's undone flag unchanged
     dist |-> NULL_OP,       \* the operation it handed to distribute
     dist_locked |-> FALSE]  \* it held the lock in that call

\* The user data a client registers together with callback cb.
UserData(cb) == [of |-> cb]

\* instance->callback and instance->callback_user_data after calloc
Callback0 == [callback |-> NoCallback, callback_user_data |-> UserData(NoCallback)]

\* What the synchronization thread has done so far (observation only; no
\* action reads it).
NoInvocation == [callback |-> "none", callback_user_data |-> "none"]
SyncObs0 ==
    [drained |-> <<>>,           \* the operations get_pending has handed over
     invoked |-> NoInvocation,   \* the callback and user data of this
                                 \* iteration's call at line 52
     \* the rest is about the current iteration
     sync_failed |-> FALSE,      \* sync_state returned an error
     drains |-> 0,               \* get_pending calls
     held |-> <<>>,              \* the batch get_pending handed over
     observed |-> FALSE,         \* line 50 found a callback registered
     invocations |-> 0,          \* calls of the callback
     invoked_batch |-> <<>>,     \* the batch it was called with
     invoked_locked |-> FALSE,   \* the thread held the lock in that call
     attempts |-> <<>>,          \* the operations handed to store, in order
     before_call |-> 0,          \* those handed to store before the call
     unlocked_attempts |-> 0,    \* those handed to store without the lock
     store_failures |-> 0,       \* store calls that returned an error
     releases |-> 0,             \* free_operations calls
     released_after |-> 0]       \* store calls made before the release

\* What exists of the instance (counters of what was acquired and released).
Life0 ==
    [allocs |-> 0,        \* calloc of the instance (with its strings)
     frees |-> 0,         \* free of the instance (with its strings)
     mtx_inits |-> 0,     \* mtx_init
     mtx_destroys |-> 0,  \* mtx_destroy
     lldb_opens |-> 0,    \* caicr_lldb_initialize that succeeded
     lldb_closes |-> 0,   \* caicr_lldb_shutdown
     net_opens |-> 0,     \* caicr_network_initialize that succeeded
     net_closes |-> 0,    \* caicr_network_shutdown
     starts |-> 0,        \* thrd_create that succeeded
     joiner |-> NoThread, \* the first caller to enter thrd_join
     joins |-> 0,         \* thrd_join calls that have returned
     handle |-> FALSE,    \* *instance was assigned: the client has the handle
     signaled |-> FALSE,  \* a shutdown has stored false into is_running
     failed |-> "none",   \* the step of caicr_initialize that failed
     reported |-> "none", \* the status the port reported in that step
     returned |-> 0]      \* caicr_shutdown calls that have returned

\* After caicr_initialize has returned CAICR_SUCCESS.
LifeRunning ==
    [Life0 EXCEPT !.allocs = 1, !.mtx_inits = 1, !.lldb_opens = 1,
                  !.net_opens = 1, !.starts = 1, !.handle = TRUE]

Outcomes == IF faults < MaxFaults THEN { "ok", "fail" } ELSE { "ok" }
CommitOutcomes ==
    IF faults < MaxFaults THEN { "ok", "fail", "fail_abort" } ELSE { "ok" }
StoreOutcomes(ctx) ==
    Outcomes \cup (IF ctx.txn_open THEN {} ELSE { "reject" })
Fault(outcome) == IF outcome \in { "fail", "fail_abort" } THEN 1 ELSE 0
NetInitOutcomes == IF faults < MaxFaults THEN { "ok", "fail", "fail_oom" } ELSE { "ok" }

Init ==
    /\ lldb = LLDBContext0
    /\ mutex = NoThread
    /\ is_running = TRUE
    /\ callback = Callback0
    /\ pc = [t \in Threads |-> IF t = SyncThread THEN "sync_loop" ELSE "idle"]
    /\ call = [t \in Callers |-> "none"]
    /\ status = [t \in Callers |-> CAICR_SUCCESS]
    /\ operation = [t \in Callers |-> NULL_OP]
    /\ last_operation = [t \in Callers |-> NULL_OP]
    /\ reverse_operation = [t \in Callers |-> NULL_OP]
    /\ reg_callback = [t \in Callers |-> NoCallback]
    /\ operations = <<>>
    /\ current = 0
    /\ net_batches = 0
    /\ calls = 0
    /\ faults = 0
    /\ txn_owner = NoThread
    /\ commit_order = <<>>
    /\ obs = [t \in Callers |-> Obs0]
    /\ sync_obs = SyncObs0
    /\ life = LifeRunning

\* A process that has crashed takes no further step.
Alive == pc[SyncThread] # "crashed"

\* Faulty variants of the lock: it is taken without waiting for its holder;
\* the unlock does nothing.
mtx_lock_NoWait(t) == mutex' = t
mtx_unlock_Noop(t) == UNCHANGED mutex

\* mtx_lock / mtx_unlock
mtx_lock(t) == mutex = NoThread /\ mutex' = t
mtx_unlock(t) == mutex' = (IF mutex = t THEN NoThread ELSE mutex)

\* The owner of the transaction after a port call by thread t.
Owner(ctx, t) ==
    IF ~ctx.txn_open THEN NoThread
    ELSE IF lldb.txn_open THEN txn_owner ELSE t

SyncVars == << operations, current, net_batches, sync_obs >>
UndoLocals == << last_operation, reverse_operation, reg_callback >>

\* ================================================= caicr_submit_operation
\* lines 189-196: instance and operation are non-null; take the lock
SubmitLock(t) ==
    /\ Alive
    /\ pc[t] = "idle" /\ calls < MaxCalls
    /\ \E op \in SubmitOps :
        operation' = [operation EXCEPT ![t] = op]
    /\ mtx_lock(t)
    /\ call' = [call EXCEPT ![t] = "submit"]
    /\ pc' = [pc EXCEPT ![t] = "sub_begin"]
    /\ calls' = calls + 1
    /\ obs' = [obs EXCEPT ![t] = [Obs0 EXCEPT !.log0 = lldb.log]]
    /\ UNCHANGED << lldb, is_running, life, callback, status, faults, txn_owner,
                    commit_order >>
    /\ UNCHANGED UndoLocals /\ UNCHANGED SyncVars

\* lines 197-198
SubmitBegin(t) ==
    /\ Alive
    /\ pc[t] = "sub_begin"
    /\ \E outcome \in Outcomes :
        LET r == caicr_lldb_begin_transaction(lldb, outcome) IN
        /\ lldb' = r.ctx
        /\ txn_owner' = Owner(r.ctx, t)
        /\ status' = [status EXCEPT ![t] = r.status]
        /\ faults' = faults + Fault(outcome)
        /\ IF r.status # CAICR_SUCCESS
           THEN /\ pc' = [pc EXCEPT ![t] = "sub_unlock_fail"]
                /\ obs' = [obs EXCEPT ![t].failed = "begin",
                                      ![t].reported = r.status]
           ELSE /\ pc' = [pc EXCEPT ![t] = "sub_store"]
                /\ obs' = [obs EXCEPT ![t].began = TRUE]
    /\ UNCHANGED << mutex, is_running, life, callback, call, operation, calls,
                    commit_order >>
    /\ UNCHANGED UndoLocals /\ UNCHANGED SyncVars

\* Faulty variant of lines 204-205: the operation is not handed to store.
SubmitStore_Skip(t) ==
    /\ Alive
    /\ pc[t] = "sub_store"
    /\ status' = [status EXCEPT ![t] = CAICR_SUCCESS]
    /\ pc' = [pc EXCEPT ![t] = "sub_commit"]
    /\ UNCHANGED << lldb, mutex, is_running, life, callback, call, operation, calls,
                    faults, txn_owner, commit_order, obs >>
    /\ UNCHANGED UndoLocals /\ UNCHANGED SyncVars

\* lines 204-205
SubmitStore(t) ==
    /\ Alive
    /\ pc[t] = "sub_store"
    /\ \E outcome \in StoreOutcomes(lldb) :
        LET r == caicr_lldb_store_operation(lldb, operation[t], outcome) IN
        /\ lldb' = r.ctx
        /\ status' = [status EXCEPT ![t] = r.status]
        /\ faults' = faults + Fault(outcome)
        /\ IF r.status # CAICR_SUCCESS
           THEN /\ pc' = [pc EXCEPT ![t] = "sub_rollback"]
                /\ obs' = [obs EXCEPT ![t].failed = "store",
                                      ![t].reported = r.status]
           ELSE /\ pc' = [pc EXCEPT ![t] = "sub_commit"]
                /\ obs' = [obs EXCEPT ![t].stored = lldb.next_id]
    /\ UNCHANGED << mutex, is_running, life, callback, call, operation, calls,
                    txn_owner, commit_order >>
    /\ UNCHANGED UndoLocals /\ UNCHANGED SyncVars

\* line 206
SubmitRollback(t) ==
    /\ Alive
    /\ pc[t] = "sub_rollback"
    /\ LET r == caicr_lldb_rollback_transaction(lldb) IN
        /\ lldb' = r.ctx
        /\ txn_owner' = Owner(r.ctx, t)
    /\ pc' = [pc EXCEPT ![t] = "sub_unlock_fail"]
    /\ obs' = [obs EXCEPT ![t].rollbacks = @ + 1]
    /\ UNCHANGED << mutex, is_running, life, callback, call, status, operation,
                    calls, faults, commit_order >>
    /\ UNCHANGED UndoLocals /\ UNCHANGED SyncVars

\* What a caller's unlock records.
AtUnlock(o, t) ==
    [o EXCEPT !.unlocked = TRUE,
              !.txn_left = (txn_owner = t),
              !.log_same = (lldb.log = o.log0),
              !.undone_same =
                  (o.fetched = NULL_OP \/
                   \A i \in 1..Len(lldb.log) :
                       lldb.log[i].operation_id = o.fetched.operation_id
                           => lldb.log[i].undone = o.fetched.undone)]

\* lines 199-200 and 207-208: unlock and return the status
SubmitUnlockFail(t) ==
    /\ Alive
    /\ pc[t] = "sub_unlock_fail"
    /\ mtx_unlock(t)
    /\ pc' = [pc EXCEPT ![t] = "ret"]
    /\ obs' = [obs EXCEPT ![t] = AtUnlock(@, t)]
    /\ UNCHANGED << lldb, is_running, life, callback, call, status, operation,
                    calls, faults, txn_owner, commit_order >>
    /\ UNCHANGED UndoLocals /\ UNCHANGED SyncVars

\* line 212
SubmitCommit(t) ==
    /\ Alive
    /\ pc[t] = "sub_commit"
    /\ \E outcome \in CommitOutcomes :
        LET r == caicr_lldb_commit_transaction(lldb, outcome) IN
        /\ lldb' = r.ctx
        /\ txn_owner' = Owner(r.ctx, t)
        /\ status' = [status EXCEPT ![t] = r.status]
        /\ faults' = faults + Fault(outcome)
        /\ IF r.status # CAICR_SUCCESS
           THEN /\ obs' = [obs EXCEPT ![t].failed = "commit",
                                      ![t].reported = r.status]
                /\ UNCHANGED commit_order
           ELSE /\ obs' = [obs EXCEPT ![t].committed = TRUE]
                /\ commit_order' = Append(commit_order, operation[t])
    /\ pc' = [pc EXCEPT ![t] = "sub_unlock"]
    /\ UNCHANGED << mutex, is_running, life, callback, call, operation, calls >>
    /\ UNCHANGED UndoLocals /\ UNCHANGED SyncVars

\* Faulty variant of lines 213-217: the commit status is not tested.
SubmitUnlock_NoCheck(t) ==
    /\ Alive
    /\ pc[t] = "sub_unlock"
    /\ mtx_unlock(t)
    /\ pc' = [pc EXCEPT ![t] = "sub_dist"]
    /\ obs' = [obs EXCEPT ![t] = AtUnlock(@, t)]
    /\ UNCHANGED << lldb, is_running, life, callback, call, status, operation,
                    calls, faults, txn_owner, commit_order >>
    /\ UNCHANGED UndoLocals /\ UNCHANGED SyncVars

\* lines 213-217
SubmitUnlock(t) ==
    /\ Alive
    /\ pc[t] = "sub_unlock"
    /\ mtx_unlock(t)
    /\ pc' = [pc EXCEPT ![t] =
                 IF status[t] # CAICR_SUCCESS THEN "ret" ELSE "sub_dist"]
    /\ obs' = [obs EXCEPT ![t] = AtUnlock(@, t)]
    /\ UNCHANGED << lldb, is_running, life, callback, call, status, operation,
                    calls, faults, txn_owner, commit_order >>
    /\ UNCHANGED UndoLocals /\ UNCHANGED SyncVars

\* Faulty variant of line 220: a failed distribute takes the stored entry
\* out of the log again.
SubmitDistribute_Unwind(t) ==
    /\ Alive
    /\ pc[t] = "sub_dist"
    /\ \E outcome \in Outcomes :
        LET st == caicr_network_distribute_operation(outcome) IN
        /\ status' = [status EXCEPT ![t] = st]
        /\ faults' = faults + Fault(outcome)
        /\ lldb' = IF st = CAICR_SUCCESS THEN lldb
                   ELSE [lldb EXCEPT !.log = SelectSeq(@,
                            LAMBDA e : e.operation_id # obs[t].stored)]
        /\ obs' = [obs EXCEPT ![t].dist = operation[t],
                              ![t].dist_locked = (mutex = t),
                              ![t].failed = IF st # CAICR_SUCCESS
                                            THEN "distribute" ELSE @,
                              ![t].reported = IF st # CAICR_SUCCESS
                                              THEN st ELSE @]
    /\ pc' = [pc EXCEPT ![t] = "ret"]
    /\ UNCHANGED << mutex, is_running, life, callback, call, operation, calls,
                    txn_owner, commit_order >>
    /\ UNCHANGED UndoLocals /\ UNCHANGED SyncVars

\* line 220
SubmitDistribute(t) ==
    /\ Alive
    /\ pc[t] = "sub_dist"
    /\ \E outcome \in Outcomes :
        LET st == caicr_network_distribute_operation(outcome) IN
        /\ status' = [status EXCEPT ![t] = st]
        /\ faults' = faults + Fault(outcome)
        /\ obs' = [obs EXCEPT ![t].dist = operation[t],
                              ![t].dist_locked = (mutex = t),
                              ![t].failed = IF st # CAICR_SUCCESS
                                            THEN "distribute" ELSE @,
                              ![t].reported = IF st # CAICR_SUCCESS
                                              THEN st ELSE @]
    /\ pc' = [pc EXCEPT ![t] = "ret"]
    /\ UNCHANGED << lldb, mutex, is_running, life, callback, call, operation,
                    calls, txn_owner, commit_order >>
    /\ UNCHANGED UndoLocals /\ UNCHANGED SyncVars

\* ============================================================= caicr_undo
\* Faulty variant of lines 259-271: the reversal never carries content.
ReverseOperation_NoContent(last, instance_id) ==
    CAICROperation(
        IF last.type = CAICR_OP_INSERT THEN CAICR_OP_DELETE
        ELSE IF last.type = CAICR_OP_DELETE THEN CAICR_OP_INSERT
        ELSE CAICR_OP_REPLACE,
        last.file_path, last.line_number, last.column_number,
        NULL, 0, 0, instance_id, 0)

\* lines 259-271: the reversal of the fetched operation
ReverseOperation(last, instance_id) ==
    CAICROperation(
        IF last.type = CAICR_OP_INSERT THEN CAICR_OP_DELETE
        ELSE IF last.type = CAICR_OP_DELETE THEN CAICR_OP_INSERT
        ELSE CAICR_OP_REPLACE,
        last.file_path, last.line_number, last.column_number,
        IF last.type = CAICR_OP_DELETE THEN last.content ELSE NULL,
        IF last.type = CAICR_OP_DELETE THEN last.content_length ELSE 0,
        0, instance_id, 0)

\* A faulty variant: undo goes on without taking the lock.
UndoLock_NoLock(t) ==
    /\ Alive
    /\ pc[t] = "idle" /\ calls < MaxCalls
    /\ call' = [call EXCEPT ![t] = "undo"]
    /\ pc' = [pc EXCEPT ![t] = "undo_get_last"]
    /\ calls' = calls + 1
    /\ obs' = [obs EXCEPT ![t] = [Obs0 EXCEPT !.log0 = lldb.log]]
    /\ UNCHANGED << lldb, mutex, is_running, life, callback, status, operation, faults,
                    txn_owner, commit_order >>
    /\ UNCHANGED UndoLocals /\ UNCHANGED SyncVars

\* lines 224-232: instance is non-null; take the lock
UndoLock(t) ==
    /\ Alive
    /\ pc[t] = "idle" /\ calls < MaxCalls
    /\ mtx_lock(t)
    /\ call' = [call EXCEPT ![t] = "undo"]
    /\ pc' = [pc EXCEPT ![t] = "undo_get_last"]
    /\ calls' = calls + 1
    /\ obs' = [obs EXCEPT ![t] = [Obs0 EXCEPT !.log0 = lldb.log]]
    /\ UNCHANGED << lldb, is_running, life, callback, status, operation, faults,
                    txn_owner, commit_order >>
    /\ UNCHANGED UndoLocals /\ UNCHANGED SyncVars

\* lines 233-235
UndoGetLast(t) ==
    /\ Alive
    /\ pc[t] = "undo_get_last"
    /\ \E outcome \in Outcomes :
        LET r == caicr_lldb_get_last_operation(lldb, outcome) IN
        /\ status' = [status EXCEPT ![t] = r.status]
        /\ last_operation' = [last_operation EXCEPT ![t] = r.operation]
        /\ faults' = faults + Fault(outcome)
        /\ pc' = [pc EXCEPT ![t] =
                     IF r.status # CAICR_SUCCESS \/ r.operation = NULL_OP
                     THEN "undo_unlock_none" ELSE "undo_begin"]
        /\ obs' = [obs EXCEPT ![t].fetched = r.operation,
                              ![t].fetch_empty = (lldb.log = <<>>),
                              ![t].failed = IF r.status # CAICR_SUCCESS
                                            THEN "get_last" ELSE @,
                              ![t].reported = IF r.status # CAICR_SUCCESS
                                              THEN r.status ELSE @]
    /\ UNCHANGED << lldb, mutex, is_running, life, callback, call, operation,
                    reverse_operation, reg_callback, calls, txn_owner,
                    commit_order >>
    /\ UNCHANGED SyncVars

\* Faulty variant of lines 236-237: the status of the fetch is returned as
\* it is.
UndoUnlockNone_ReturnStatus(t) ==
    /\ Alive
    /\ pc[t] = "undo_unlock_none"
    /\ mtx_unlock(t)
    /\ pc' = [pc EXCEPT ![t] = "ret"]
    /\ obs' = [obs EXCEPT ![t] = AtUnlock(@, t)]
    /\ UNCHANGED << lldb, is_running, life, callback, call, status, operation,
                    calls, faults, txn_owner, commit_order >>
    /\ UNCHANGED UndoLocals /\ UNCHANGED SyncVars

\* lines 236-237
UndoUnlockNone(t) ==
    /\ Alive
    /\ pc[t] = "undo_unlock_none"
    /\ mtx_unlock(t)
    /\ status' = [status EXCEPT ![t] =
                     IF @ # CAICR_SUCCESS THEN @
                     ELSE CAICR_ERROR_OPERATION_EXECUTION]
    /\ pc' = [pc EXCEPT ![t] = "ret"]
    /\ obs' = [obs EXCEPT ![t] = AtUnlock(@, t)]
    /\ UNCHANGED << lldb, is_running, life, callback, call, operation, calls,
                    faults, txn_owner, commit_order >>
    /\ UNCHANGED UndoLocals /\ UNCHANGED SyncVars

\* lines 241-242
UndoBegin(t) ==
    /\ Alive
    /\ pc[t] = "undo_begin"
    /\ \E outcome \in Outcomes :
        LET r == caicr_lldb_begin_transaction(lldb, outcome) IN
        /\ lldb' = r.ctx
        /\ txn_owner' = Owner(r.ctx, t)
        /\ status' = [status EXCEPT ![t] = r.status]
        /\ faults' = faults + Fault(outcome)
        /\ IF r.status # CAICR_SUCCESS
           THEN /\ pc' = [pc EXCEPT ![t] = "undo_free_unlock"]
                /\ obs' = [obs EXCEPT ![t].failed = "begin",
                                      ![t].reported = r.status]
           ELSE /\ pc' = [pc EXCEPT ![t] = "undo_mark"]
                /\ obs' = [obs EXCEPT ![t].began = TRUE]
    /\ UNCHANGED << mutex, is_running, life, callback, call, operation, calls,
                    commit_order >>
    /\ UNCHANGED UndoLocals /\ UNCHANGED SyncVars

\* lines 249-251 and, on success, 259-271
UndoMark(t) ==
    /\ Alive
    /\ pc[t] = "undo_mark"
    /\ \E outcome \in Outcomes :
        LET r == caicr_lldb_mark_operation_undone(
                     lldb, last_operation[t].operation_id, outcome) IN
        /\ lldb' = r.ctx
        /\ status' = [status EXCEPT ![t] = r.status]
        /\ faults' = faults + Fault(outcome)
        /\ IF r.status # CAICR_SUCCESS
           THEN /\ pc' = [pc EXCEPT ![t] = "undo_rollback"]
                /\ obs' = [obs EXCEPT ![t].failed = "mark_undone",
                                      ![t].reported = r.status]
                /\ UNCHANGED reverse_operation
           ELSE /\ pc' = [pc EXCEPT ![t] = "undo_commit"]
                /\ obs' = [obs EXCEPT ![t].marked =
                                          last_operation[t].operation_id]
                /\ reverse_operation' = [reverse_operation EXCEPT ![t] =
                       ReverseOperation(last_operation[t], InstanceId)]
    /\ UNCHANGED << mutex, is_running, life, callback, call, operation,
                    last_operation, reg_callback, calls, txn_owner,
                    commit_order >>
    /\ UNCHANGED SyncVars

\* line 252
UndoRollback(t) ==
    /\ Alive
    /\ pc[t] = "undo_rollback"
    /\ LET r == caicr_lldb_rollback_transaction(lldb) IN
        /\ lldb' = r.ctx
        /\ txn_owner' = Owner(r.ctx, t)
    /\ pc' = [pc EXCEPT ![t] = "undo_free_unlock"]
    /\ obs' = [obs EXCEPT ![t].rollbacks = @ + 1]
    /\ UNCHANGED << mutex, is_running, life, callback, call, status, operation,
                    calls, faults, commit_order >>
    /\ UNCHANGED UndoLocals /\ UNCHANGED SyncVars

\* lines 243-245 and 253-255: free the fetched operation, unlock, return
UndoFreeUnlock(t) ==
    /\ Alive
    /\ pc[t] = "undo_free_unlock"
    /\ last_operation' = [last_operation EXCEPT ![t] = NULL_OP]
    /\ mtx_unlock(t)
    /\ pc' = [pc EXCEPT ![t] = "ret"]
    /\ obs' = [obs EXCEPT ![t] = [AtUnlock(@, t) EXCEPT !.frees = @ + 1]]
    /\ UNCHANGED << lldb, is_running, life, callback, call, status, operation,
                    reverse_operation, reg_callback, calls, faults,
                    txn_owner, commit_order >>
    /\ UNCHANGED SyncVars

\* line 274
UndoCommit(t) ==
    /\ Alive
    /\ pc[t] = "undo_commit"
    /\ \E outcome \in CommitOutcomes :
        LET r == caicr_lldb_commit_transaction(lldb, outcome) IN
        /\ lldb' = r.ctx
        /\ txn_owner' = Owner(r.ctx, t)
        /\ status' = [status EXCEPT ![t] = r.status]
        /\ faults' = faults + Fault(outcome)
        /\ IF r.status # CAICR_SUCCESS
           THEN obs' = [obs EXCEPT ![t].failed = "commit",
                                   ![t].reported = r.status]
           ELSE obs' = [obs EXCEPT ![t].committed = TRUE]
    /\ pc' = [pc EXCEPT ![t] = "undo_unlock"]
    /\ UNCHANGED << mutex, is_running, life, callback, call, operation, calls,
                    commit_order >>
    /\ UNCHANGED UndoLocals /\ UNCHANGED SyncVars

\* lines 275-283: unlock; after a failed commit free both operations, return
UndoUnlock(t) ==
    /\ Alive
    /\ pc[t] = "undo_unlock"
    /\ mtx_unlock(t)
    /\ IF status[t] # CAICR_SUCCESS
       THEN /\ pc' = [pc EXCEPT ![t] = "ret"]
            /\ last_operation' = [last_operation EXCEPT ![t] = NULL_OP]
            /\ reverse_operation' = [reverse_operation EXCEPT ![t] = NULL_OP]
            /\ obs' = [obs EXCEPT ![t] = [AtUnlock(@, t) EXCEPT !.frees = @ + 1]]
       ELSE /\ pc' = [pc EXCEPT ![t] = "undo_dist"]
            /\ obs' = [obs EXCEPT ![t] = AtUnlock(@, t)]
            /\ UNCHANGED << last_operation, reverse_operation >>
    /\ UNCHANGED << lldb, is_running, life, callback, call, status, operation,
                    reg_callback, calls, faults, txn_owner, commit_order >>
    /\ UNCHANGED SyncVars

\* lines 286-294: distribute the reversal, free both operations, return
UndoDistribute(t) ==
    /\ Alive
    /\ pc[t] = "undo_dist"
    /\ \E outcome \in Outcomes :
        LET st == caicr_network_distribute_operation(outcome) IN
        /\ status' = [status EXCEPT ![t] = st]
        /\ faults' = faults + Fault(outcome)
        /\ obs' = [obs EXCEPT ![t].dist = reverse_operation[t],
                              ![t].dist_locked = (mutex = t),
                              ![t].frees = @ + 1,
                              ![t].failed = IF st # CAICR_SUCCESS
                                            THEN "distribute" ELSE @,
                              ![t].reported = IF st # CAICR_SUCCESS
                                              THEN st ELSE @]
    /\ last_operation' = [last_operation EXCEPT ![t] = NULL_OP]
    /\ reverse_operation' = [reverse_operation EXCEPT ![t] = NULL_OP]
    /\ pc' = [pc EXCEPT ![t] = "ret"]
    /\ UNCHANGED << lldb, mutex, is_running, life, callback, call, operation,
                    reg_callback, calls, txn_owner, commit_order >>
    /\ UNCHANGED SyncVars

\* ============================================================= caicr_redo
\* lines 297-301: the body is a placeholder; it reads and writes nothing of
\* the instance and returns CAICR_SUCCESS
Redo(t) ==
    /\ Alive
    /\ pc[t] = "idle" /\ calls < MaxCalls
    /\ call' = [call EXCEPT ![t] = "redo"]
    /\ status' = [status EXCEPT ![t] = CAICR_SUCCESS]
    /\ pc' = [pc EXCEPT ![t] = "ret"]
    /\ calls' = calls + 1
    /\ obs' = [obs EXCEPT ![t] = [Obs0 EXCEPT !.log0 = lldb.log]]
    /\ UNCHANGED << lldb, mutex, is_running, life, callback, operation, faults,
                    txn_owner, commit_order >>
    /\ UNCHANGED UndoLocals /\ UNCHANGED SyncVars

\* ====================================== caicr_register_operation_callback
\* lines 176-180: instance is non-null; take the lock
RegisterLock(t) ==
    /\ Alive
    /\ pc[t] = "idle" /\ calls < MaxCalls
    /\ \E cb \in Callbacks \cup { NoCallback } :
        reg_callback' = [reg_callback EXCEPT ![t] = cb]
    /\ mtx_lock(t)
    /\ call' = [call EXCEPT ![t] = "register"]
    /\ pc' = [pc EXCEPT ![t] = "reg_set"]
    /\ calls' = calls + 1
    /\ obs' = [obs EXCEPT ![t] = [Obs0 EXCEPT !.log0 = lldb.log]]
    /\ UNCHANGED << lldb, is_running, life, callback, status, operation,
                    last_operation, reverse_operation, faults, txn_owner,
                    commit_order >>
    /\ UNCHANGED SyncVars

\* line 181
RegisterSet(t) ==
    /\ Alive
    /\ pc[t] = "reg_set"
    /\ callback' = [callback EXCEPT !.callback = reg_callback[t]]
    /\ pc' = [pc EXCEPT ![t] = "reg_set_data"]
    /\ UNCHANGED << lldb, mutex, is_running, life, call, status, operation,
                    calls, faults, txn_owner, commit_order, obs >>
    /\ UNCHANGED UndoLocals /\ UNCHANGED SyncVars

\* line 182
RegisterSetData(t) ==
    /\ Alive
    /\ pc[t] = "reg_set_data"
    /\ callback' = [callback EXCEPT
                       !.callback_user_data = UserData(reg_callback[t])]
    /\ pc' = [pc EXCEPT ![t] = "reg_unlock"]
    /\ UNCHANGED << lldb, mutex, is_running, life, call, status, operation,
                    calls, faults, txn_owner, commit_order, obs >>
    /\ UNCHANGED UndoLocals /\ UNCHANGED SyncVars

\* lines 183-185
RegisterUnlock(t) ==
    /\ Alive
    /\ pc[t] = "reg_unlock"
    /\ mtx_unlock(t)
    /\ status' = [status EXCEPT ![t] = CAICR_SUCCESS]
    /\ pc' = [pc EXCEPT ![t] = "ret"]
    /\ obs' = [obs EXCEPT ![t] = AtUnlock(@, t)]
    /\ UNCHANGED << lldb, is_running, life, callback, call, operation, calls,
                    faults, txn_owner, commit_order >>
    /\ UNCHANGED UndoLocals /\ UNCHANGED SyncVars

\* ================================================= caicr_sync_thread_func
CallerVars == << call, status, operation, last_operation, reverse_operation,
                 reg_callback, calls, commit_order, obs >>

\* lines 43-45: the loop test, then sync_state, whose status is not looked at
SyncState ==
    /\ pc[SyncThread] = "sync_loop"
    /\ is_running
    /\ \E outcome \in Outcomes :
        /\ faults' = faults + Fault(outcome)
        /\ sync_obs' = [sync_obs EXCEPT !.sync_failed = (outcome # "ok")]
    /\ pc' = [pc EXCEPT ![SyncThread] = "sync_pending"]
    /\ UNCHANGED << lldb, mutex, is_running, life, callback, txn_owner,
                    operations, current, net_batches >>
    /\ UNCHANGED CallerVars

\* lines 48-50: drain the pending operations, test the batch and the callback
SyncPending ==
    /\ pc[SyncThread] = "sync_pending"
    /\ \E outcome \in Outcomes :
       \E batch \in { <<>> } \cup
                    (IF net_batches < MaxBatches /\ outcome = "ok"
                     THEN PeerBatches ELSE {}) :
        /\ operations' = batch
        /\ net_batches' = net_batches + (IF batch = <<>> THEN 0 ELSE 1)
        /\ sync_obs' = [sync_obs EXCEPT
                           !.drained = @ \o batch, !.drains = @ + 1,
                           !.held = batch,
                           !.observed = callback.callback # NoCallback]
        /\ faults' = faults + Fault(outcome)
        /\ pc' = [pc EXCEPT ![SyncThread] =
                     IF /\ outcome = "ok" /\ batch # <<>>
                        /\ callback.callback # NoCallback
                     THEN "sync_callback" ELSE "sync_sleep"]
    /\ current' = 0
    /\ UNCHANGED << lldb, mutex, is_running, life, callback, txn_owner >>
    /\ UNCHANGED CallerVars

\* line 52: call through instance->callback with instance->callback_user_data,
\* both read again without the lock; a null function pointer ends the process
SyncCallback ==
    /\ pc[SyncThread] = "sync_callback"
    /\ sync_obs' = [sync_obs EXCEPT
                       !.invoked = callback,
                       !.invocations = @ + (IF callback.callback = NoCallback
                                            THEN 0 ELSE 1),
                       !.invoked_batch = operations,
                       !.invoked_locked = (mutex = SyncThread),
                       !.before_call = Len(sync_obs.attempts)]
    /\ pc' = [pc EXCEPT ![SyncThread] =
                 IF callback.callback = NoCallback THEN "crashed"
                 ELSE "sync_lock"]
    /\ UNCHANGED << lldb, mutex, is_running, life, callback, faults, txn_owner,
                    operations, current, net_batches >>
    /\ UNCHANGED CallerVars

\* A faulty variant: the store loop is entered without the lock.
SyncLock_NoLock ==
    /\ pc[SyncThread] = "sync_lock"
    /\ current' = 1
    /\ pc' = [pc EXCEPT ![SyncThread] = "sync_store"]
    /\ UNCHANGED << lldb, mutex, is_running, life, callback, faults, txn_owner,
                    operations, net_batches, sync_obs >>
    /\ UNCHANGED CallerVars

\* lines 55-56
SyncLock ==
    /\ pc[SyncThread] = "sync_lock"
    /\ mtx_lock(SyncThread)
    /\ current' = 1
    /\ pc' = [pc EXCEPT ![SyncThread] = "sync_store"]
    /\ UNCHANGED << lldb, is_running, life, callback, faults, txn_owner,
                    operations, net_batches, sync_obs >>
    /\ UNCHANGED CallerVars

\* A faulty variant: a failed store ends the store loop.
SyncStore_StopOnFailure ==
    /\ pc[SyncThread] = "sync_store"
    /\ \E outcome \in StoreOutcomes(lldb) :
        LET r == caicr_lldb_store_operation(lldb, operations[current], outcome) IN
        /\ lldb' = r.ctx
        /\ faults' = faults + Fault(outcome)
        /\ sync_obs' = [sync_obs EXCEPT
               !.attempts = Append(@, operations[current]),
               !.unlocked_attempts = @ + (IF mutex = SyncThread THEN 0 ELSE 1),
               !.store_failures = @ + (IF r.status = CAICR_SUCCESS THEN 0 ELSE 1)]
        /\ pc' = [pc EXCEPT ![SyncThread] =
                     IF current < Len(operations) /\ r.status = CAICR_SUCCESS
                     THEN "sync_store" ELSE "sync_unlock"]
    /\ current' = current + 1
    /\ UNCHANGED << mutex, is_running, life, callback, txn_owner, operations,
                    net_batches >>
    /\ UNCHANGED CallerVars

\* lines 57-60: store the current operation (the status is not looked at),
\* step to the next
SyncStore ==
    /\ pc[SyncThread] = "sync_store"
    /\ \E outcome \in StoreOutcomes(lldb) :
        LET r == caicr_lldb_store_operation(lldb, operations[current], outcome) IN
        /\ lldb' = r.ctx
        /\ faults' = faults + Fault(outcome)
        /\ sync_obs' = [sync_obs EXCEPT
               !.attempts = Append(@, operations[current]),
               !.unlocked_attempts = @ + (IF mutex = SyncThread THEN 0 ELSE 1),
               !.store_failures = @ + (IF r.status = CAICR_SUCCESS THEN 0 ELSE 1)]
    /\ current' = current + 1
    /\ pc' = [pc EXCEPT ![SyncThread] =
                 IF current < Len(operations) THEN "sync_store"
                 ELSE "sync_unlock"]
    /\ UNCHANGED << mutex, is_running, life, callback, txn_owner, operations,
                    net_batches >>
    /\ UNCHANGED CallerVars

\* line 61
SyncUnlock ==
    /\ pc[SyncThread] = "sync_unlock"
    /\ mtx_unlock(SyncThread)
    /\ pc' = [pc EXCEPT ![SyncThread] = "sync_free"]
    /\ UNCHANGED << lldb, is_running, life, callback, faults, txn_owner >>
    /\ UNCHANGED CallerVars /\ UNCHANGED SyncVars

\* line 64
SyncFree ==
    /\ pc[SyncThread] = "sync_free"
    /\ operations' = <<>>
    /\ current' = 0
    /\ sync_obs' = [sync_obs EXCEPT
                       !.releases = @ + 1,
                       !.released_after = Len(sync_obs.attempts)]
    /\ pc' = [pc EXCEPT ![SyncThread] = "sync_sleep"]
    /\ UNCHANGED << lldb, mutex, is_running, life, callback, faults, txn_owner,
                    net_batches >>
    /\ UNCHANGED CallerVars

\* line 69, and line 48 of the next iteration
SyncSleep ==
    /\ pc[SyncThread] = "sync_sleep"
    /\ operations' = <<>>
    /\ current' = 0
    /\ sync_obs' = [SyncObs0 EXCEPT !.drained = sync_obs.drained]
    /\ pc' = [pc EXCEPT ![SyncThread] = "sync_loop"]
    /\ UNCHANGED << lldb, mutex, is_running, life, callback, faults, txn_owner,
                    net_batches >>
    /\ UNCHANGED CallerVars

\* The caller has the status; its locals go out of scope.
Return(t) ==
    /\ Alive
    /\ pc[t] = "ret"
    /\ pc' = [pc EXCEPT ![t] = "idle"]
    /\ call' = [call EXCEPT ![t] = "none"]
    /\ status' = [status EXCEPT ![t] = CAICR_SUCCESS]
    /\ operation' = [operation EXCEPT ![t] = NULL_OP]
    /\ last_operation' = [last_operation EXCEPT ![t] = NULL_OP]
    /\ reverse_operation' = [reverse_operation EXCEPT ![t] = NULL_OP]
    /\ reg_callback' = [reg_callback EXCEPT ![t] = NoCallback]
    /\ obs' = [obs EXCEPT ![t] = Obs0]
    /\ UNCHANGED << lldb, mutex, is_running, life, callback, calls, faults,
                    txn_owner, commit_order >>
    /\ UNCHANGED SyncVars

Caller(t) ==
    \/ SubmitLock(t) \/ SubmitBegin(t) \/ SubmitStore(t)
    \/ SubmitRollback(t) \/ SubmitUnlockFail(t) \/ SubmitCommit(t)
    \/ SubmitUnlock(t) \/ SubmitDistribute(t)
    \/ UndoLock(t) \/ UndoGetLast(t) \/ UndoUnlockNone(t)
    \/ UndoBegin(t) \/ UndoMark(t) \/ UndoRollback(t) \/ UndoFreeUnlock(t)
    \/ UndoCommit(t) \/ UndoUnlock(t) \/ UndoDistribute(t)
    \/ Redo(t)
    \/ RegisterLock(t) \/ RegisterSet(t) \/ RegisterSetData(t)
    \/ RegisterUnlock(t)
    \/ Return(t)

Sync ==
    \/ SyncState \/ SyncPending \/ SyncCallback \/ SyncLock
    \/ SyncStore \/ SyncUnlock \/ SyncFree \/ SyncSleep

Next == (\E t \in Callers : Caller(t)) \/ Sync

Spec == Init /\ [][Next]_vars

\* =============================================================== lifecycle
\* The thread that calls caicr_initialize, and what no step of
\* caicr_initialize or caicr_shutdown touches.
Initializer == "t1"
LifeRest == << lldb, mutex, callback, operation, txn_owner, commit_order >>

\* ======================================================= caicr_initialize
\* lines 76-107: calloc of the instance and strdup of the three strings; on a
\* failed allocation whatever was allocated is freed
InitAlloc(t) ==
    /\ Alive
    /\ pc[t] = "init" /\ calls < MaxCalls
    /\ call' = [call EXCEPT ![t] = "initialize"]
    /\ calls' = calls + 1
    /\ \E outcome \in Outcomes :
        /\ faults' = faults + Fault(outcome)
        /\ IF outcome = "ok"
           THEN /\ life' = [life EXCEPT !.allocs = @ + 1]
                /\ pc' = [pc EXCEPT ![t] = "init_mtx"]
                /\ UNCHANGED status
           ELSE /\ life' = [life EXCEPT !.failed = "alloc"]
                /\ status' = [status EXCEPT ![t] = CAICR_ERROR_OUT_OF_MEMORY]
                /\ pc' = [pc EXCEPT ![t] = "init_failed"]
    /\ UNCHANGED << is_running, obs >>
    /\ UNCHANGED LifeRest /\ UNCHANGED UndoLocals /\ UNCHANGED SyncVars

\* lines 110-117
InitMutex(t) ==
    /\ Alive
    /\ pc[t] = "init_mtx"
    /\ \E outcome \in Outcomes :
        /\ faults' = faults + Fault(outcome)
        /\ IF outcome = "ok"
           THEN /\ life' = [life EXCEPT !.mtx_inits = @ + 1]
                /\ pc' = [pc EXCEPT ![t] = "init_lldb"]
                /\ UNCHANGED status
           ELSE /\ life' = [life EXCEPT !.frees = @ + 1, !.failed = "mutex"]
                /\ status' = [status EXCEPT ![t] = CAICR_ERROR_UNKNOWN]
                /\ pc' = [pc EXCEPT ![t] = "init_failed"]
    /\ UNCHANGED << is_running, call, calls, obs >>
    /\ UNCHANGED LifeRest /\ UNCHANGED UndoLocals /\ UNCHANGED SyncVars

\* lines 120-131
InitLldb(t) ==
    /\ Alive
    /\ pc[t] = "init_lldb"
    /\ \E outcome \in Outcomes :
        LET st == caicr_lldb_initialize(outcome) IN
        /\ faults' = faults + Fault(outcome)
        /\ IF st = CAICR_SUCCESS
           THEN /\ life' = [life EXCEPT !.lldb_opens = @ + 1]
                /\ pc' = [pc EXCEPT ![t] = "init_net"]
                /\ UNCHANGED status
           ELSE /\ life' = [life EXCEPT !.mtx_destroys = @ + 1,
                                        !.frees = @ + 1, !.failed = "lldb",
                                        !.reported = st]
                /\ status' = [status EXCEPT ![t] = st]
                /\ pc' = [pc EXCEPT ![t] = "init_failed"]
    /\ UNCHANGED << is_running, call, calls, obs >>
    /\ UNCHANGED LifeRest /\ UNCHANGED UndoLocals /\ UNCHANGED SyncVars

\* A faulty variant: the failure path does not close the Persistence Port.
InitNetwork_Leak(t) ==
    /\ Alive
    /\ pc[t] = "init_net"
    /\ \E outcome \in NetInitOutcomes :
        LET st == caicr_network_initialize(outcome) IN
        /\ faults' = faults + (IF st = CAICR_SUCCESS THEN 0 ELSE 1)
        /\ IF st = CAICR_SUCCESS
           THEN /\ life' = [life EXCEPT !.net_opens = @ + 1]
                /\ pc' = [pc EXCEPT ![t] = "init_thread"]
                /\ UNCHANGED status
           ELSE /\ life' = [life EXCEPT !.mtx_destroys = @ + 1,
                                        !.frees = @ + 1, !.failed = "network",
                                        !.reported = st]
                /\ status' = [status EXCEPT ![t] = st]
                /\ pc' = [pc EXCEPT ![t] = "init_failed"]
    /\ UNCHANGED << is_running, call, calls, obs >>
    /\ UNCHANGED LifeRest /\ UNCHANGED UndoLocals /\ UNCHANGED SyncVars

\* lines 134-150
InitNetwork(t) ==
    /\ Alive
    /\ pc[t] = "init_net"
    /\ \E outcome \in NetInitOutcomes :
        LET st == caicr_network_initialize(outcome) IN
        /\ faults' = faults + (IF st = CAICR_SUCCESS THEN 0 ELSE 1)
        /\ IF st = CAICR_SUCCESS
           THEN /\ life' = [life EXCEPT !.net_opens = @ + 1]
                /\ pc' = [pc EXCEPT ![t] = "init_thread"]
                /\ UNCHANGED status
           ELSE /\ life' = [life EXCEPT !.lldb_closes = @ + 1,
                                        !.mtx_destroys = @ + 1,
                                        !.frees = @ + 1, !.failed = "network",
                                        !.reported = st]
                /\ status' = [status EXCEPT ![t] = st]
                /\ pc' = [pc EXCEPT ![t] = "init_failed"]
    /\ UNCHANGED << is_running, call, calls, obs >>
    /\ UNCHANGED LifeRest /\ UNCHANGED UndoLocals /\ UNCHANGED SyncVars

\* lines 153-166: the flag is set, then the thread is created; nothing else
\* can see the instance in between
InitThread(t) ==
    /\ Alive
    /\ pc[t] = "init_thread"
    /\ \E outcome \in Outcomes :
        /\ faults' = faults + Fault(outcome)
        /\ IF outcome = "ok"
           THEN /\ is_running' = TRUE
                /\ life' = [life EXCEPT !.starts = @ + 1]
                /\ pc' = [pc EXCEPT ![t] = "init_return",
                                    ![SyncThread] = "sync_loop"]
                /\ UNCHANGED status
           ELSE /\ is_running' = FALSE
                /\ life' = [life EXCEPT !.net_closes = @ + 1,
                                        !.lldb_closes = @ + 1,
                                        !.mtx_destroys = @ + 1,
                                        !.frees = @ + 1, !.failed = "thread"]
                /\ status' = [status EXCEPT ![t] = CAICR_ERROR_UNKNOWN]
                /\ pc' = [pc EXCEPT ![t] = "init_failed"]
    /\ UNCHANGED << call, calls, obs >>
    /\ UNCHANGED LifeRest /\ UNCHANGED UndoLocals /\ UNCHANGED SyncVars

\* lines 169-170: the client has the handle, and so have its other threads
InitReturn(t) ==
    /\ Alive
    /\ pc[t] = "init_return"
    /\ life' = [life EXCEPT !.handle = TRUE]
    /\ status' = [status EXCEPT ![t] = CAICR_SUCCESS]
    /\ pc' = [u \in Threads |->
                 IF u = t THEN "ret"
                 ELSE IF pc[u] = "nohandle" THEN "idle" ELSE pc[u]]
    /\ UNCHANGED << is_running, call, calls, faults, obs >>
    /\ UNCHANGED LifeRest /\ UNCHANGED UndoLocals /\ UNCHANGED SyncVars

\* ========================================================= caicr_shutdown
\* lines 315-321: instance is non-null; store false into the flag and enter
\* thrd_join
ShutdownStop(t) ==
    /\ Alive
    /\ pc[t] = "idle" /\ calls < MaxCalls
    /\ call' = [call EXCEPT ![t] = "shutdown"]
    /\ calls' = calls + 1
    /\ is_running' = FALSE
    /\ life' = [life EXCEPT !.signaled = TRUE,
                            !.joiner = IF @ = NoThread THEN t ELSE @]
    /\ pc' = [pc EXCEPT ![t] = "sd_join"]
    /\ obs' = [obs EXCEPT ![t] = [Obs0 EXCEPT !.log0 = lldb.log]]
    /\ UNCHANGED << status, faults >>
    /\ UNCHANGED LifeRest /\ UNCHANGED UndoLocals /\ UNCHANGED SyncVars

\* line 321: thrd_join returns when the thread has returned
ShutdownJoin(t) ==
    /\ Alive
    /\ pc[t] = "sd_join"
    /\ pc[SyncThread] = "sync_done"
    /\ life' = [life EXCEPT !.joins = @ + 1]
    /\ pc' = [pc EXCEPT ![t] = "sd_net"]
    /\ UNCHANGED << is_running, call, status, calls, faults, obs >>
    /\ UNCHANGED LifeRest /\ UNCHANGED UndoLocals /\ UNCHANGED SyncVars

\* line 321, on a thread that another caller has joined or is joining: the
\* behaviour is undefined; besides waiting as above, thrd_join may return an
\* error at once, which the code does not look at
ShutdownJoinRefused(t) ==
    /\ Alive
    /\ pc[t] = "sd_join"
    /\ life.joiner # t
    /\ life' = [life EXCEPT !.joins = @ + 1]
    /\ pc' = [pc EXCEPT ![t] = "sd_net"]
    /\ UNCHANGED << is_running, call, status, calls, faults, obs >>
    /\ UNCHANGED LifeRest /\ UNCHANGED UndoLocals /\ UNCHANGED SyncVars

\* line 324
ShutdownNetwork(t) ==
    /\ Alive
    /\ pc[t] = "sd_net"
    /\ life' = [life EXCEPT !.net_closes = @ + 1]
    /\ pc' = [pc EXCEPT ![t] = "sd_lldb"]
    /\ UNCHANGED << is_running, call, status, calls, faults, obs >>
    /\ UNCHANGED LifeRest /\ UNCHANGED UndoLocals /\ UNCHANGED SyncVars

\* line 325
ShutdownLldb(t) ==
    /\ Alive
    /\ pc[t] = "sd_lldb"
    /\ life' = [life EXCEPT !.lldb_closes = @ + 1]
    /\ pc' = [pc EXCEPT ![t] = "sd_free"]
    /\ UNCHANGED << is_running, call, status, calls, faults, obs >>
    /\ UNCHANGED LifeRest /\ UNCHANGED UndoLocals /\ UNCHANGED SyncVars

\* lines 328-338: destroy the mutex, free the strings and the instance
ShutdownFree(t) ==
    /\ Alive
    /\ pc[t] = "sd_free"
    /\ life' = [life EXCEPT !.mtx_destroys = @ + 1, !.frees = @ + 1,
                            !.returned = @ + 1]
    /\ status' = [status EXCEPT ![t] = CAICR_SUCCESS]
    /\ pc' = [pc EXCEPT ![t] = "ret"]
    /\ UNCHANGED << is_running, call, calls, faults, obs >>
    /\ UNCHANGED LifeRest /\ UNCHANGED UndoLocals /\ UNCHANGED SyncVars

\* lines 43 and 72: the loop test fails and the thread returns
SyncExit ==
    /\ pc[SyncThread] = "sync_loop"
    /\ ~is_running
    /\ pc' = [pc EXCEPT ![SyncThread] = "sync_done"]
    /\ UNCHANGED << lldb, mutex, is_running, life, callback, faults, txn_owner >>
    /\ UNCHANGED CallerVars /\ UNCHANGED SyncVars

\* The positions at which a thread is not inside a function of the runtime.
OutsidePcs == { "idle", "ret", "nohandle", "init_failed", "unborn",
                "sync_done", "crashed" }

\* A thread inside the runtime after the instance was freed reads freed
\* memory: the behaviour is undefined.  It goes on as if the memory were
\* intact (the other actions), or the process ends here.
UseAfterFree(t) ==
    /\ Alive
    /\ life.frees >= 1 /\ life.handle
    /\ pc[t] \notin OutsidePcs
    /\ pc' = [pc EXCEPT ![SyncThread] = "crashed"]
    /\ UNCHANGED << is_running, life, call, status, calls, faults, obs >>
    /\ UNCHANGED LifeRest /\ UNCHANGED UndoLocals /\ UNCHANGED SyncVars

Initialize(t) ==
    \/ InitAlloc(t) \/ InitMutex(t) \/ InitLldb(t) \/ InitNetwork(t)
    \/ InitThread(t) \/ InitReturn(t)

Shutdown(t) ==
    \/ ShutdownStop(t) \/ ShutdownJoin(t) \/ ShutdownJoinRefused(t)
    \/ ShutdownNetwork(t) \/ ShutdownLldb(t) \/ ShutdownFree(t)

\* Before caicr_initialize: one thread is about to call it, the other has
\* no handle, the synchronization thread does not exist.
InitLife ==
    /\ lldb = LLDBContext0
    /\ mutex = NoThread
    /\ is_running = FALSE
    /\ callback = Callback0
    /\ pc = [t \in Threads |-> IF t = SyncThread THEN "unborn"
                               ELSE IF t = Initializer THEN "init"
                               ELSE "nohandle"]
    /\ call = [t \in Callers |-> "none"]
    /\ status = [t \in Callers |-> CAICR_SUCCESS]
    /\ operation = [t \in Callers |-> NULL_OP]
    /\ last_operation = [t \in Callers |-> NULL_OP]
    /\ reverse_operation = [t \in Callers |-> NULL_OP]
    /\ reg_callback = [t \in Callers |-> NoCallback]
    /\ operations = <<>>
    /\ current = 0
    /\ net_batches = 0
    /\ calls = 0
    /\ faults = 0
    /\ txn_owner = NoThread
    /\ commit_order = <<>>
    /\ obs = [t \in Callers |-> Obs0]
    /\ sync_obs = SyncObs0
    /\ life = Life0

NextLife ==
    \/ \E t \in Callers : Initialize(t)
    \/ \E t \in Callers : Caller(t)
    \/ \E t \in Callers : Shutdown(t)
    \/ Sync
    \/ SyncExit
    \/ \E t \in Threads : UseAfterFree(t)

SpecLife == InitLife /\ [][NextLife]_vars

\* The running instance of Init, with caicr_shutdown among the calls.
NextRun ==
    \/ \E t \in Callers : Caller(t)
    \/ \E t \in Callers : Shutdown(t)
    \/ Sync
    \/ SyncExit
    \/ \E t \in Threads : UseAfterFree(t)

SpecRun == Init /\ [][NextRun]_vars

\* ================================================================= claims
Log == lldb.log

\* The operation an entry of the log was stored from (what submit was given).
Submitted(e) ==
    [type |-> e.type, file_path |-> e.file_path,
     line_number |-> e.line_number, column_number |-> e.column_number,
     content |-> e.content, content_length |-> e.content_length,
     instance_id |-> e.instance_id]
Given(op) ==
    [type |-> op.type, file_path |-> op.file_path,
     line_number |-> op.line_number, column_number |-> op.column_number,
     content |-> op.content, content_length |-> op.content_length,
     instance_id |-> op.instance_id]
IsOwn(e) == e.instance_id = InstanceId
OwnEntries == SelectSeq(Log, IsOwn)

\* C1: while no port call has failed, every submit call returns success, and
\* whenever no transaction is open the entries of this instance in the log
\* are exactly the operations of the submit calls, one entry per call in
\* commit order; the operationIds in the log are strictly increasing (hence
\* pairwise distinct).
C1_ConcurrentSubmits ==
    /\ \A i, j \in 1..Len(Log) :
           i < j => Log[i].operation_id < Log[j].operation_id
    /\ faults = 0 =>
        /\ \A t \in Callers :
               (pc[t] = "ret" /\ call[t] = "submit") =>
                   (status[t] = CAICR_SUCCESS /\ obs[t].committed)
        /\ ~lldb.txn_open =>
            /\ Len(OwnEntries) = Len(commit_order)
            /\ \A i \in 1..Len(OwnEntries) :
                   Submitted(OwnEntries[i]) = Given(commit_order[i])

\* C1 witness: two submit calls are in flight at once, both committed, and
\* a third submit has committed before them.
C1_Witness ==
    /\ faults = 0
    /\ \A t \in Callers : pc[t] = "sub_dist"
    /\ Len(OwnEntries) = 3

C3_SubmitErrorRolledBack ==
    \A t \in Callers :
        (pc[t] = "ret" /\ call[t] = "submit"
            /\ obs[t].failed \in { "begin", "store", "commit" }) =>
            /\ ~obs[t].txn_left
            /\ obs[t].log_same
            /\ obs[t].unlocked /\ mutex # t

\* C4: when submit's commit succeeded and distribute failed, submit returns
\* the status distribute reported, it has made no rollback call, and the
\* entry it stored is in the log.
C4_DistributeFailureKeepsCommit ==
    \A t \in Callers :
        (pc[t] = "ret" /\ call[t] = "submit" /\ obs[t].failed = "distribute") =>
            /\ status[t] = obs[t].reported /\ status[t] # CAICR_SUCCESS
            /\ obs[t].committed
            /\ obs[t].rollbacks = 0
            /\ \E i \in 1..Len(Log) :
                   /\ Log[i].operation_id = obs[t].stored
                   /\ Submitted(Log[i]) = Given(operation[t])

\* C4 witness: a submit has returned the distribution error.
C4_Witness ==
    \E t \in Callers :
        /\ pc[t] = "ret" /\ call[t] = "submit"
        /\ obs[t].failed = "distribute"
        /\ status[t] = CAICR_ERROR_UNKNOWN

\* C5: a call is at its distribute, or has called it, only when its own
\* commit has succeeded; a call in which begin, store, mark-undone or commit
\* failed has not called distribute.
C5_DistributeOnlyAfterCommit ==
    \A t \in Callers :
        /\ (pc[t] \in { "sub_dist", "undo_dist" } \/ obs[t].dist # NULL_OP)
               => obs[t].committed
        /\ obs[t].failed \in { "get_last", "begin", "store", "mark_undone",
                               "commit" }
               => (obs[t].dist = NULL_OP
                   /\ pc[t] \notin { "sub_dist", "undo_dist" })

\* C5 witness: one call has distributed after its commit while the other has
\* returned a failed commit without distributing.
C5_Witness ==
    \E t, u \in Callers :
        /\ obs[t].dist # NULL_OP /\ obs[t].committed
        /\ pc[u] = "ret" /\ obs[u].failed = "commit"
        /\ obs[u].dist = NULL_OP

\* C6: a thread at its distribute call does not hold the instance lock, and
\* no distribute call was made with the lock held.
C6_DistributeOutsideLock ==
    \A t \in Callers :
        /\ pc[t] \in { "sub_dist", "undo_dist" } => mutex # t
        /\ ~obs[t].dist_locked

\* C6 witness: while one thread is at its distribute call, another thread
\* holds the lock with its commit done.
C6_Witness ==
    \E t, u \in Callers :
        /\ pc[t] \in { "sub_dist", "undo_dist" }
        /\ mutex = u /\ pc[u] = "sub_unlock" /\ obs[u].committed

\* C7 (as claimed): every entry of the log has a non-zero operationId and a
\* non-zero timestampNanos.
C7_NonZeroIdAndTimestamp ==
    \A i \in 1..Len(Log) :
        Log[i].operation_id # 0 /\ Log[i].timestamp_ns # 0

\* C8: an undo that found the log empty returns an error, which is
\* CAICR_ERROR_OPERATION_EXECUTION (the runtime's NoOperationToUndo) when the
\* fetch itself reported success; it has begun no transaction, marked
\* nothing, distributed nothing, left the log unchanged and released the lock.
C8_UndoOnEmptyLog ==
    \A t \in Callers :
        (pc[t] = "ret" /\ call[t] = "undo" /\ obs[t].fetch_empty) =>
            /\ status[t] # CAICR_SUCCESS
            /\ obs[t].failed = "none"
                   => status[t] = CAICR_ERROR_OPERATION_EXECUTION
            /\ ~obs[t].began /\ obs[t].rollbacks = 0
            /\ obs[t].marked = 0
            /\ obs[t].dist = NULL_OP
            /\ obs[t].log_same
            /\ obs[t].unlocked /\ mutex # t

\* C8 witness: an undo on the empty log has returned the error.
C8_Witness ==
    \E t \in Callers :
        /\ pc[t] = "ret" /\ call[t] = "undo" /\ obs[t].fetch_empty
        /\ status[t] = CAICR_ERROR_OPERATION_EXECUTION
        /\ Log = <<>>

\* C9 (as claimed): when undo returns because begin, mark-undone or commit
\* failed, no transaction of the call is left open, the undone flag of the
\* fetched entry is as it was fetched, the status returned is the one the
\* failing call reported, and the fetched operation was released once.
C9_UndoErrorRolledBack ==
    \A t \in Callers :
        (pc[t] = "ret" /\ call[t] = "undo"
            /\ obs[t].failed \in { "begin", "mark_undone", "commit" }) =>
            /\ ~obs[t].txn_left
            /\ obs[t].undone_same
            /\ status[t] = obs[t].reported
            /\ obs[t].frees = 1

\* C10: the operation undo hands to distribute is the reversal of the entry
\* that was the last of the log when undo fetched: a Delete at the same
\* filePath, line and column without content for an Insert; an Insert at the
\* same filePath, line and column with the deleted content and its length
\* for a Delete; a Replace for a Replace.  In particular, on the log of
\* Insert("f.txt",1,1,"hi") then Delete("f.txt",1,1,"hi") it is
\* Insert("f.txt",1,1,"hi").
C10_Reversal ==
    \A t \in Callers :
        (call[t] = "undo" /\ obs[t].dist # NULL_OP) =>
            LET l == obs[t].fetched
                d == obs[t].dist
                log0 == obs[t].log0
            IN
            /\ log0 # <<>> /\ l = log0[Len(log0)]
            /\ l.type = CAICR_OP_INSERT =>
                /\ d.type = CAICR_OP_DELETE
                /\ d.file_path = l.file_path
                /\ d.line_number = l.line_number
                /\ d.column_number = l.column_number
                /\ d.content = NULL /\ d.content_length = 0
            /\ l.type = CAICR_OP_DELETE =>
                /\ d.type = CAICR_OP_INSERT
                /\ d.file_path = l.file_path
                /\ d.line_number = l.line_number
                /\ d.column_number = l.column_number
                /\ d.content = l.content
                /\ d.content_length = l.content_length
            /\ l.type = CAICR_OP_REPLACE => d.type = CAICR_OP_REPLACE
            /\ (/\ Len(log0) = 2
                /\ log0[1].type = CAICR_OP_INSERT /\ log0[1].content = "hi"
                /\ log0[1].file_path = "f.txt"
                /\ log0[2].type = CAICR_OP_DELETE /\ log0[2].content = "hi"
                /\ log0[2].file_path = "f.txt") =>
                   (/\ d.type = CAICR_OP_INSERT /\ d.file_path = "f.txt"
                    /\ d.line_number = 1 /\ d.column_number = 1
                    /\ d.content = "hi" /\ d.content_length = 2)

\* C10 witness: after submit Insert("f.txt",1,1,"hi") and submit
\* Delete("f.txt",1,1,"hi"), an undo has distributed Insert("f.txt",1,1,"hi").
C10_Witness ==
    \E t \in Callers :
        /\ pc[t] = "ret" /\ call[t] = "undo" /\ status[t] = CAICR_SUCCESS
        /\ Len(Log) = 2
        /\ Log[1].type = CAICR_OP_INSERT /\ Log[1].operation_id = 1
        /\ Log[2].type = CAICR_OP_DELETE /\ Log[2].undone
        /\ obs[t].dist.type = CAICR_OP_INSERT
        /\ obs[t].dist.file_path = "f.txt"
        /\ obs[t].dist.content = "hi"

\* The positions of the entries of a log that are in the undone state.
UndoneIn(log) == { i \in 1..Len(log) : log[i].undone }
\* The most recently undone entry of a log: with getLast-based undo, the
\* newest of them.
LastUndone(log) == CHOOSE i \in UndoneIn(log) : \A j \in UndoneIn(log) : j <= i

\* C11: a redo that finds no undone entry returns an error and changes
\* nothing; a redo that finds one marks the most recently undone entry redone
\* inside a transaction and distributes the forward operation.
C11_Redo ==
    \A t \in Callers :
        (pc[t] = "ret" /\ call[t] = "redo") =>
            IF UndoneIn(obs[t].log0) = {}
            THEN status[t] # CAICR_SUCCESS /\ obs[t].dist = NULL_OP
            ELSE /\ obs[t].began /\ obs[t].committed
                 /\ obs[t].dist # NULL_OP
                 /\ obs[t].dist.type = obs[t].log0[LastUndone(obs[t].log0)].type

\* C12: after submit of an Insert, undo and redo, all succeeding, the entry
\* of the Insert is no longer undone and the redo has distributed the Insert.
C12_UndoRedoRoundTrip ==
    \A t \in Callers :
        ( /\ pc[t] = "ret" /\ call[t] = "redo" /\ status[t] = CAICR_SUCCESS
          /\ Len(obs[t].log0) = 1
          /\ obs[t].log0[1].type = CAICR_OP_INSERT
          /\ obs[t].log0[1].undone
          /\ Len(Log) = 1 ) =>
            /\ ~Log[1].undone
            /\ obs[t].dist # NULL_OP
            /\ obs[t].dist.type = CAICR_OP_INSERT
            /\ obs[t].dist.content = obs[t].log0[1].content

\* How many entries of the log were stored from operation op.
StoredCount(op) ==
    Cardinality({ i \in 1..Len(Log) : Submitted(Log[i]) = Given(op) })

\* C20: when the loop has finished an iteration, every operation that
\* drainPending has handed over so far is in the log exactly once, also when
\* no observer was registered (no port call failing by itself).
C20_NoPeerOperationLost ==
    (pc[SyncThread] = "sync_loop" /\ faults = 0) =>
        \A k \in 1..Len(sync_obs.drained) :
            StoredCount(sync_obs.drained[k]) = 1

\* C18: every call of the observer uses a callback and a user data that one
\* registration stored together, and the callback it calls through is the
\* non-null one it tested.
C18_RegisterAtomic ==
    /\ pc[SyncThread] # "crashed"
    /\ sync_obs.invoked # NoInvocation =>
        /\ sync_obs.invoked.callback # NoCallback
        /\ sync_obs.invoked.callback_user_data = UserData(sync_obs.invoked.callback)

\* The positions at which the next step of a thread is a call of the
\* Persistence Port, and of the Distribution Port.
LldbPcs == { "sub_begin", "sub_store", "sub_rollback", "sub_commit",
             "undo_get_last", "undo_begin", "undo_mark", "undo_rollback",
             "undo_commit", "sync_store", "sd_lldb" }
NetPcs == { "sub_dist", "undo_dist", "sync_loop", "sync_pending", "sync_free",
            "sd_net" }

\* Thread t makes a port call in this step (not the loop's exit, not the end
\* of the process).
PortCall(t) ==
    /\ pc[t] \in LldbPcs \cup NetPcs
    /\ pc'[t] # pc[t] \/ (t = SyncThread /\ current' # current)
    /\ pc'[t] # "sync_done" /\ pc'[SyncThread] # "crashed"

\* C13: over any sequence of shutdown calls each port, the lock and the
\* instance memory are released once, the thread is joined at most once, and
\* a second shutdown call does not return success.
C13_ShutdownIdempotent ==
    /\ life.net_closes <= life.net_opens
    /\ life.lldb_closes <= life.lldb_opens
    /\ life.mtx_destroys <= life.mtx_inits
    /\ life.frees <= life.allocs
    /\ life.joins <= life.starts
    /\ \A t \in Callers :
        (pc[t] = "ret" /\ call[t] = "shutdown" /\ life.returned >= 2) =>
            status[t] # CAICR_SUCCESS

\* C14: once a shutdown call has returned, no thread makes a port call.
C14_NoPortCallAfterShutdown ==
    [][life.returned >= 1 => ~\E t \in Threads : PortCall(t)]_vars

\* Thread t enters submit, undo or redo in this step.
StartsCall(t) ==
    pc[t] = "idle" /\ pc'[t] # "idle" /\ call'[t] \in { "submit", "undo", "redo" }

\* C15: a submit, undo or redo that starts after shutdown has stored false
\* into the running flag returns an error at once, without a port call.
C15_RejectedAfterSignal ==
    [][\A t \in Callers :
          (life.signaled /\ ~is_running /\ StartsCall(t)) =>
              (pc'[t] = "ret" /\ status'[t] # CAICR_SUCCESS)]_vars

\* A step closes the Persistence Port, destroys the lock or frees the
\* instance.
Releases ==
    \/ life'.lldb_closes > life.lldb_closes
    \/ life'.mtx_destroys > life.mtx_destroys
    \/ life'.frees > life.frees

\* C16: the Persistence Port is not closed, the lock not destroyed and the
\* instance not freed while a thread holds the lock or has a transaction open
\* (no port call failing by itself).
C16_InFlightFinishes ==
    [][(Releases /\ faults = 0) => (mutex = NoThread /\ ~lldb.txn_open)]_vars

\* C17: a port is closed only after the running flag is false and the loop
\* has returned; the Persistence Port only after the Distribution Port; the
\* instance is freed only after both.
C17_ShutdownOrder ==
    life.handle =>
        /\ life.net_closes >= 1 =>
            ~is_running /\ pc[SyncThread] \in { "sync_done", "crashed" }
        /\ life.lldb_closes >= 1 => life.net_closes >= 1
        /\ life.frees >= 1 => life.lldb_closes >= 1

\* C19: when caicr_initialize fails, every port it opened is closed, the
\* lock and the memory are released, the running flag is false, no thread
\* runs, the caller gets no handle and the status is the failing step's.
C19_InitializeLeaksNothing ==
    pc[Initializer] = "init_failed" =>
        /\ life.lldb_closes = life.lldb_opens
        /\ life.net_closes = life.net_opens
        /\ life.mtx_destroys = life.mtx_inits
        /\ life.frees = life.allocs
        /\ ~is_running /\ life.starts = 0 /\ pc[SyncThread] = "unborn"
        /\ ~life.handle /\ \A t \in Callers : pc[t] # "idle"
        /\ life.failed = "alloc" => status[Initializer] = CAICR_ERROR_OUT_OF_MEMORY
        /\ life.failed = "lldb" =>
            /\ status[Initializer] = life.reported
            /\ status[Initializer] = CAICR_ERROR_LLDB_INITIALIZATION
            /\ life.lldb_opens = 0 /\ life.net_opens = 0
        /\ life.failed = "network" =>
            /\ status[Initializer] = life.reported
            /\ status[Initializer] \in { CAICR_ERROR_NETWORK_INITIALIZATION,
                                         CAICR_ERROR_OUT_OF_MEMORY }
            /\ life.lldb_opens = 1 /\ life.net_opens = 0
        /\ life.failed \in { "mutex", "thread" } =>
            status[Initializer] = CAICR_ERROR_UNKNOWN
        /\ life.failed = "thread" => life.lldb_opens = 1 /\ life.net_opens = 1
        /\ life.failed # "none"
\* The Distribution Port failed to open after the Persistence Port had opened.
C19_Witness ==
    /\ pc[Initializer] = "init_failed"
    /\ life.failed = "network"
    /\ life.lldb_opens = 1 /\ life.lldb_closes = 1
    /\ status[Initializer] = CAICR_ERROR_NETWORK_INITIALIZATION

\* C21: when an iteration of the loop has reached its sleep, a non-empty
\* batch that get_pending handed over in it has been released exactly once.
C21_BatchReleasedOnce ==
    (pc[SyncThread] = "sync_sleep" /\ sync_obs.held # <<>>) =>
        sync_obs.releases = 1

\* The loop is past the call of the observer in this iteration.
PastCall == pc[SyncThread] \in { "sync_lock", "sync_store", "sync_unlock", "sync_free" }
\* The loop is past the store loop in this iteration.
PastStores == pc[SyncThread] \in { "sync_unlock", "sync_free" }
\* Line 50 found a non-empty batch and a registered observer.
Delivering == sync_obs.held # <<>> /\ sync_obs.observed

C23_FailuresDoNotStopLoop ==
    /\ [](sync_obs.sync_failed =>
            \/ pc[SyncThread] = "sync_pending"
            \/ sync_obs.drains = 1)
    /\ []((sync_obs.store_failures >= 1 /\ pc[SyncThread] # "sync_store") =>
            sync_obs.attempts = sync_obs.held)
    /\ [][(pc[SyncThread] = "sync_store" /\ current < Len(operations)
           /\ pc'[SyncThread] # "crashed" /\ current' # current)
          => pc'[SyncThread] = "sync_store" /\ current' = current + 1]_vars
    /\ [][(pc[SyncThread] \in { "sync_unlock", "sync_free", "sync_sleep" }
           /\ pc'[SyncThread] \notin { pc[SyncThread], "crashed" })
          => pc'[SyncThread] =
                (CASE pc[SyncThread] = "sync_unlock" -> "sync_free"
                   [] pc[SyncThread] = "sync_free" -> "sync_sleep"
                   [] pc[SyncThread] = "sync_sleep" -> "sync_loop")]_vars
    /\ []((pc[SyncThread] = "sync_loop" /\ is_running) => ENABLED SyncState)
\* The store of the first entry failed and the second entry was handed to
\* store all the same.
C23_Witness ==
    /\ pc[SyncThread] = "sync_unlock"
    /\ sync_obs.store_failures >= 1
    /\ Len(sync_obs.attempts) = 2
    /\ Len(Log) >= 1 /\ Submitted(Log[Len(Log)]) = Given(sync_obs.held[2])

\* C24: whenever a thread is about to call store, a transaction is open that
\* this thread opened: for submit and for the loop's store of peer batches.
C24_StoreInsideOwnTransaction ==
    /\ \A t \in Callers :
        pc[t] = "sub_store" => lldb.txn_open /\ txn_owner = t
    /\ pc[SyncThread] = "sync_store" =>
        lldb.txn_open /\ txn_owner = SyncThread

\* C25: no thread is about to call beginTransaction while a transaction is
\* open, and no transaction is open while the lock is free.
C25_OneTransaction ==
    /\ \A t \in Callers :
        pc[t] \in { "sub_begin", "undo_begin" } => ~lldb.txn_open
    /\ mutex = NoThread => ~lldb.txn_open

\* The operationIds of a log, oldest first.
Ids(log) == [i \in 1..Len(log) |-> log[i].operation_id]
\* The positions of undo between its fetch and its release of the lock.
UndoHolding == { "undo_begin", "undo_mark", "undo_rollback", "undo_commit", "undo_unlock" }

\* C28: from undo's fetch to its release of the lock nothing is appended to
\* the log, and the entry it has marked undone is the newest entry.
C28_UndoAtomic ==
    \A t \in Callers :
        (call[t] = "undo" /\ pc[t] \in UndoHolding) =>
            /\ Ids(Log) = Ids(obs[t].log0)
            /\ obs[t].fetched.operation_id = Log[Len(Log)].operation_id
            /\ (pc[t] = "undo_commit" /\ obs[t].marked # 0) =>
                /\ obs[t].marked = Log[Len(Log)].operation_id
                /\ Log[Len(Log)].undone
\* An undo has marked its entry while the loop, with a batch to store, waits
\* for the lock.
C28_Witness ==
    \E t \in Callers :
        /\ call[t] = "undo" /\ pc[t] = "undo_commit" /\ obs[t].marked # 0
        /\ pc[SyncThread] = "sync_lock"
        /\ mutex = t

\* The entry of a log with operationId id.
EntryOf(log, id) == log[CHOOSE i \in 1..Len(log) : log[i].operation_id = id]

\* C29: undo never marks an entry that was already undone, and an undo that
\* finds every entry already undone does not succeed.
C29_UndoStack ==
    \A t \in Callers :
        call[t] = "undo" =>
            /\ obs[t].marked # 0 => ~EntryOf(obs[t].log0, obs[t].marked).undone
            /\ ( /\ pc[t] = "ret"
                 /\ obs[t].log0 # <<>>
                 /\ \A i \in 1..Len(obs[t].log0) : obs[t].log0[i].undone ) =>
                    status[t] # CAICR_SUCCESS

\* The loop calls the observer, hands an entry to store, or starts a new
\* sync_state in this step.
SyncInvokes == pc[SyncThread] = "sync_callback" /\ pc'[SyncThread] = "sync_lock"
SyncStores == pc[SyncThread] = "sync_store" /\ current' # current
SyncStartsStep == pc[SyncThread] = "sync_loop" /\ pc'[SyncThread] = "sync_pending"

\* C26: once shutdown has stored false into the running flag, the loop does
\* not call the observer, stores no entry and starts no new sync_state.
C26_LoopObservesSignal ==
    [][(life.signaled /\ ~is_running) =>
          ~(SyncInvokes \/ SyncStores \/ SyncStartsStep)]_vars

\* Another caller is inside caicr_shutdown.
OtherShutdown(t) == \E u \in Callers \ {t} : call[u] = "shutdown"

\* Caller t is inside the first caicr_shutdown of the instance, waiting in
\* thrd_join, and no other caller has entered caicr_shutdown.
FirstShutdown(t) ==
    /\ call[t] = "shutdown" /\ pc[t] = "sd_join"
    /\ life.joiner = t /\ life.joins = 0
    /\ ~OtherShutdown(t)

\* C27: a shutdown of a running instance, whatever submit, undo and register
\* calls run beside it, can still come back with success: while the first
\* caller of caicr_shutdown waits in thrd_join, the loop is on its way to its
\* return or has returned; it has not ended the process.
C27_ShutdownTerminates ==
    \A t \in Callers : FirstShutdown(t) => pc[SyncThread] # "crashed"

====
